---- MODULE Spec2Model ----
(***************************************************************************)
(* Tool-calling orchestration of the user chat:                            *)
(*   app/services/user_chat_mcp_service.py  (catalog, router, loop)        *)
(*   app/services/mcp_client.py             (built-in providers, client)   *)
(*   app/services/cabinet_service.py        (dynamic server registry)      *)
(*   app/routers/chat.py                    (POST /chat, _get_chat_reply)  *)
(*   app/services/test_chat_history.py      (in-memory test history)       *)
(*   services/gallery/app/mcp_router.py     (gallery service, POST /mcp)   *)
(*                                                                         *)
(* Strings are sequences of tokens, so that splitting a tool name at "__"  *)
(* and rewriting gallery paths are computed, not assumed.  A message is a  *)
(* record [role, content, tool_calls, tool_call_id]; the fields a role     *)
(* does not carry hold the empty sequence / NoId.                          *)
(*                                                                         *)
(* Eight specifications share the state:                                   *)
(*   SpecCatalog    the turn from its first line: the catalog is built     *)
(*   SpecDiscovery  the builder from line 72 on: the loop over the         *)
(*                  tenant's servers, for every tools/list answer          *)
(*   Spec           the turn from line 139 on, for each catalog it may     *)
(*                  hold                                                   *)
(*   SpecRouter     one `for tc in tool_calls` step, for every tool name,  *)
(*                  argument value, registry and backend outcome           *)
(*   SpecChat       one POST /chat request: validation, _get_chat_reply    *)
(*                  around the turn of Spec, the SSE answer                *)
(*   SpecGallery    one tools/call request to the gallery service          *)
(*   SpecTestTurns  two test-mode requests of one user on one event loop   *)
(*   SpecAdmin      turn after turn building its catalog while the         *)
(*                  cabinet creates, updates and deletes servers           *)
(* The exchange log (append_exchange, written for administrators only) is  *)
(* left out: it reads the turn's state and changes none of it.  So are the *)
(* lead table (save_lead_if_contact) and the dialog_view rows save_message *)
(* deletes: no modelled step reads them.  message_table holds what         *)
(* save_message has flushed to the request's session.                      *)
(***************************************************************************)
EXTENDS Integers, Sequences, FiniteSets, TLC

\* ------------------------------------------------------------ constants
MAX_TOOL_ROUNDS == 3
CONTEXT_MESSAGE_LIMIT == 10

\* Longest caller-owned history fed to a turn.
MaxHistory == 11
\* Most tool calls the completion backend requests over one turn.
MaxToolCalls == 3

Tenants == {"t1", "t2"}
\* Strings that uuid.UUID() accepts; s1 and s2 may be registered, s9 never is.
UuidTokens == {"s1", "s2", "s9"}
RegisteredIds == {"s1", "s2"}
NoId == "-"
Absent == "absent"

GALLERY_TOOL_NAMES == {<<"list_galleries">>, <<"show_gallery">>}
RAG_TOOL_NAMES == {<<"list_documents">>, <<"get_document">>, <<"search_documents">>}

\* Endpoints of the two built-in providers.
GALLERY_MCP == "gallery"
RAG_MCP == "rag"

\* Texts the router and the loop produce (the source's are Russian).
TOOL_TEXT == <<"tool text">>
ERR_BAD_SERVER_ID == <<"Error: bad server id in the tool name.">>
ERR_SERVER_NOT_FOUND == <<"Error: MCP server not found.">>
ERR_TOOL_CALL == <<"Tool call error:", "e">>
ERR_UNKNOWN_TOOL == <<"Unknown tool:", "name">>
ERR_LOOP == <<"Error:", "e">>
ROUND_LIMIT_TEXT == <<"Tool call limit reached.">>

\* ------------------------------------------------------------ helpers
RECURSIVE IndexOf(_, _, _)
\* Position of the first occurrence of tok in s at or after i; 0 if none.
IndexOf(s, tok, i) ==
    IF i > Len(s) THEN 0
    ELSE IF s[i] = tok THEN i
    ELSE IndexOf(s, tok, i + 1)

RECURSIVE Without(_, _)
\* str.replace(tok, ""): every occurrence of tok removed.
Without(s, tok) ==
    IF s = <<>> THEN <<>>
    ELSE IF Head(s) = tok THEN Without(Tail(s), tok)
    ELSE <<Head(s)>> \o Without(Tail(s), tok)

\* lst[-n:]
LastN(lst, n) ==
    IF Len(lst) <= n THEN lst ELSE SubSeq(lst, Len(lst) - n + 1, Len(lst))

\* ------------------------------------------------------------ registry
\* A row of table mcp_server.
McpServerRows == [id : RegisteredIds, tenant_id : Tenants, enabled : BOOLEAN]

\* The tables the primary key allows: at most one row per id.
Registries ==
    {db \in SUBSET McpServerRows :
        \A r1, r2 \in db : r1.id = r2.id => r1 = r2}

\* The row with this id AND this tenant, or none (the empty set).
get_mcp_server(db, tenant_id, server_id) ==
    {s \in db : s.id = server_id /\ s.tenant_id = tenant_id}

\* ------------------------------------------------------------ protocol client
MutRetryOnError(request, net) ==
    IF net = "error" THEN <<request, request>> ELSE <<request>>

\* What _mcp_request puts on the wire: one client.post; raise_for_status and
\* the check for "error" raise to the caller, nothing is posted again.
mcp_request(request, net) == <<request>>

\* One tools/call request; net is what the transport and the server make of
\* it: "text" (a result with a text part) or "error" (transport failure,
\* non-2xx status, or a JSON-RPC error), which _mcp_request raises.
McpCall(url, name, args, net) ==
    [raised   |-> net = "error",
     result   |-> IF net = "error" THEN <<>> ELSE TOOL_TEXT,
     outbound |-> mcp_request([url |-> url, name |-> name,
                               tenant_id |-> args.tenant_id], net)]

\* dict(arguments) raises for a value that is no mapping.
DictRaises(arguments) == ~arguments.isdict

NoCall(raised, result) == [raised |-> raised, result |-> result, outbound |-> <<>>]

MutInjectKeepsModelValue(arguments, tenant_id) ==
    IF arguments.tenant_id = Absent
    THEN [arguments EXCEPT !.tenant_id = tenant_id]
    ELSE arguments

\* args = dict(arguments); args["tenant_id"] = str(tenant_id)
InjectTenant(arguments, tenant_id) ==
    [arguments EXCEPT !.tenant_id = tenant_id]

call_gallery_tool(tenant_id, name, arguments, net) ==
    IF DictRaises(arguments) THEN NoCall(TRUE, <<>>)
    ELSE McpCall(GALLERY_MCP, name, InjectTenant(arguments, tenant_id), net)

call_rag_tool(tenant_id, name, arguments, net) ==
    IF DictRaises(arguments) THEN NoCall(TRUE, <<>>)
    ELSE McpCall(RAG_MCP, name,
                 IF name \in {<<"list_documents">>, <<"search_documents">>}
                 THEN InjectTenant(arguments, tenant_id)
                 ELSE arguments,
                 net)

\* Forwards name and arguments verbatim to {base_url}/mcp.
call_mcp_tool_by_url(base_url, name, arguments, net) ==
    McpCall(base_url, name, arguments, net)

\* ------------------------------------------------------------ router
MutGalleryNamesToRag(tenant_id, name, arguments, net) ==
    call_rag_tool(tenant_id, name, arguments, net)

\* The first branch of _call_tool.
RouteGallery(tenant_id, name, arguments, net) ==
    call_gallery_tool(tenant_id, name, arguments, net)

MutServerByIdOnly(db, tenant_id, server_id) ==
    {s \in db : s.id = server_id}

\* The registry lookup of _call_tool.
LookupServer(db, tenant_id, server_id) ==
    get_mcp_server(db, tenant_id, server_id)

\* name.startswith("mcp_") and "__" in name
IsDynamicName(name) ==
    /\ name # <<>>
    /\ Head(name) = "mcp_"
    /\ IndexOf(name, "__", 1) > 0

\* prefix, inner_name = name.split("__", 1)
SplitPrefix(name) == SubSeq(name, 1, IndexOf(name, "__", 1) - 1)
SplitInner(name) == SubSeq(name, IndexOf(name, "__", 1) + 1, Len(name))

\* UUID(s) raises ValueError unless s is one well-formed id.
UuidValid(s) == Len(s) = 1 /\ s[1] \in UuidTokens

call_tool(tenant_id, name, arguments, db, net) ==
    IF name \in GALLERY_TOOL_NAMES THEN
        RouteGallery(tenant_id, name, arguments, net)
    ELSE IF name \in RAG_TOOL_NAMES THEN
        call_rag_tool(tenant_id, name, arguments, net)
    ELSE IF IsDynamicName(name) THEN
        LET server_id_str == Without(SplitPrefix(name), "mcp_")
        IN  IF ~UuidValid(server_id_str) THEN NoCall(FALSE, ERR_BAD_SERVER_ID)
            ELSE LET server == LookupServer(db, tenant_id, server_id_str[1])
                 IN  IF server = {} THEN NoCall(FALSE, ERR_SERVER_NOT_FOUND)
                     ELSE LET s == CHOOSE x \in server : TRUE
                              r == call_mcp_tool_by_url(s.id, SplitInner(name),
                                                        arguments, net)
                          IN  IF r.raised
                              THEN [r EXCEPT !.raised = FALSE,
                                             !.result = ERR_TOOL_CALL]
                              ELSE r
    ELSE NoCall(FALSE, ERR_UNKNOWN_TOOL)

\* ------------------------------------------------------------ catalog
\* An entry of a tools/list result: name and inputSchema (its properties and
\* its required list); wellformed is FALSE for an entry that is no JSON object
\* or whose inputSchema is no mapping, on which t.get / dict() raise.
McpTool(name, properties, required) ==
    [wellformed |-> TRUE, name |-> name,
     inputSchema |-> [properties |-> properties, required |-> required]]

MalformedTool ==
    [wellformed |-> FALSE, name |-> <<>>,
     inputSchema |-> [properties |-> {}, required |-> {}]]

\* MCP_TOOLS of the gallery service and of the retrieval service.
GALLERY_MCP_TOOLS ==
    << McpTool(<<"list_galleries">>, {"tenant_id"}, {"tenant_id"}),
       McpTool(<<"show_gallery">>, {"tenant_id", "group_id"},
               {"tenant_id", "group_id"}) >>

RAG_MCP_TOOLS ==
    << McpTool(<<"list_documents">>, {"tenant_id"}, {"tenant_id"}),
       McpTool(<<"get_document">>, {"document_id"}, {"document_id"}),
       McpTool(<<"search_documents">>, {"tenant_id", "query"},
               {"tenant_id", "query"}) >>

\* A descriptor as handed to the model: {"type": "function", "function":
\* {"name", "description", "parameters"}}; the description is left out.
Descriptor(name, schema) == [name |-> name, parameters |-> schema]

MutStripPropertiesOnly(schema) ==
    IF "tenant_id" \in schema.properties
    THEN [schema EXCEPT !.properties = @ \ {"tenant_id"}]
    ELSE schema

\* Lines 54-59 of _mcp_tool_to_deepseek, drop_tenant_id being True.
StripTenantId(schema) ==
    IF "tenant_id" \in schema.properties
    THEN [properties |-> schema.properties \ {"tenant_id"},
          required |-> schema.required \ {"tenant_id"}]
    ELSE schema

mcp_tool_to_deepseek(mcp_tool) ==
    Descriptor(mcp_tool.name, StripTenantId(mcp_tool.inputSchema))

\* [_mcp_tool_to_deepseek(t) for t in tools]
ConvertAll(mcp_tools) ==
    [i \in 1..Len(mcp_tools) |-> mcp_tool_to_deepseek(mcp_tools[i])]

GALLERY_DESCRIPTORS == ConvertAll(GALLERY_MCP_TOOLS)
RAG_DESCRIPTORS == ConvertAll(RAG_MCP_TOOLS)

\* Awaited, each returns the provider's descriptors, or [] when tools/list
\* fails (the except branch).
get_gallery_tools_for_llm(up) == IF up THEN GALLERY_DESCRIPTORS ELSE <<>>
get_rag_tools_for_llm(up) == IF up THEN RAG_DESCRIPTORS ELSE <<>>

\* Both are `async def`: the call expression yields a coroutine object, and
\* only `await` turns it into the list the body returns.
Coroutine(items) == [kind |-> "coroutine", items |-> items]
Await(c) == [kind |-> "list", items |-> c.items]

\* list.extend(v): raises TypeError unless v is iterable; a coroutine is not.
ExtendRaises(v) == v.kind # "list"

\* The argument of out.extend(...) at the two built-in lines: the call is
\* written without await.
BuiltinArgument(items) == Coroutine(items)

\* select ... where tenant_id = :tenant_id order by created_at desc; the
\* ids name the rows by recency: the later a row was created, the smaller
\* its id.
NameLeq(a, b) == a = "s1" \/ b = "s2"

RECURSIVE OrderedRows(_)
OrderedRows(rows) ==
    IF rows = {} THEN <<>>
    ELSE LET r == CHOOSE x \in rows : \A y \in rows : NameLeq(x.id, y.id)
         IN  <<r>> \o OrderedRows(rows \ {r})

list_mcp_servers(db, tenant_id) ==
    OrderedRows({s \in db : s.tenant_id = tenant_id})

\* Longest tool list a dynamic server answers tools/list with.
MaxListed == 2

\* What a dynamic server lists: a tool of its own, a tool named like a
\* built-in one, an entry without a name, an entry that is malformed.
ListedEntries ==
    {McpTool(<<"x">>, {}, {}), McpTool(<<"list_galleries">>, {}, {}),
     McpTool(<<>>, {}, {}), MalformedTool}

\* What fetch_tools_from_url does: it raises (timeout, refused connection,
\* non-2xx status, JSON-RPC error, a body that is no object), or it returns
\* the list under "tools".
ListResponses ==
    {[failed |-> TRUE, tools |-> <<>>]}
    \cup {[failed |-> FALSE, tools |-> l] :
            l \in UNION {[1..n -> ListedEntries] : n \in 0..MaxListed}}

MutPrefixWithoutId(server_id, name) == <<"mcp_", "__">> \o name

\* prefixed = f"mcp_{s.id}__{name}"
PrefixedName(server_id, name) == <<"mcp_", server_id, "__">> \o name

RECURSIVE ListedTools(_, _)
\* `for t in raw:` inside the try: every entry up to the first one that
\* raises is appended to out; the except branch leaves those appended.
ListedTools(server_id, raw) ==
    IF raw = <<>> THEN <<>>
    ELSE LET t == Head(raw)
         IN  IF ~t.wellformed THEN <<>>
             ELSE (IF t.name = <<>> THEN <<>>
                   ELSE <<[descriptor |-> Descriptor(PrefixedName(server_id, t.name),
                                                     t.inputSchema),
                           server |-> server_id, name |-> t.name]>>)
                  \o ListedTools(server_id, Tail(raw))

\* One iteration of `for s in servers`: what it appends to out, each
\* descriptor with the server and the listed name it comes from.
MutSkipNone(s) == FALSE

\* if not s.enabled: continue
Skipped(s) == ~s.enabled

ServerTools(s, response) ==
    IF Skipped(s) \/ response.failed THEN <<>>
    ELSE ListedTools(s.id, response.tools)

DescriptorsOf(listed) == [i \in 1..Len(listed) |-> listed[i].descriptor]
OriginsOf(listed) ==
    [i \in 1..Len(listed) |-> [server |-> listed[i].server, name |-> listed[i].name]]

RECURSIVE DynamicTools(_, _)
\* The loop over the tenant's servers; disc[id] is what tools/list does there.
DynamicTools(servers, disc) ==
    IF servers = <<>> THEN <<>>
    ELSE LET s == Head(servers)
         IN  DescriptorsOf(ServerTools(s, disc[s.id]))
             \o DynamicTools(Tail(servers), disc)

get_all_tools_for_llm(tenant_id, db, gallery_up, rag_up, disc) ==
    LET g == BuiltinArgument(get_gallery_tools_for_llm(gallery_up))
        r == BuiltinArgument(get_rag_tools_for_llm(rag_up))
    IN  IF ExtendRaises(g) \/ ExtendRaises(r)
        THEN [raised |-> TRUE, out |-> <<>>]
        ELSE [raised |-> FALSE,
              out |-> g.items \o r.items
                      \o DynamicTools(list_mcp_servers(db, tenant_id), disc)]

\* ------------------------------------------------------------ path rewriting
FRONTEND_BASE_URL == "http://public"
GALLERY_PATH == "/api/v1/tenants/t/me/gallery/g/file"
QUOTE == "'"

RECURSIVE InjectFrom(_, _)
InjectFrom(text, i) ==
    IF i > Len(text) THEN <<>>
    ELSE (IF text[i] = GALLERY_PATH /\ (i = 1 \/ text[i - 1] # QUOTE)
          THEN <<FRONTEND_BASE_URL, text[i]>>
          ELSE <<text[i]>>)
         \o InjectFrom(text, i + 1)

inject_base_url_to_image_paths(text) ==
    IF FRONTEND_BASE_URL = "" THEN text ELSE InjectFrom(text, 1)

\* ------------------------------------------------------------ state
VARIABLES
    tenant_id,         \* the caller's tenant
    mcp_server,        \* table mcp_server (read only during a turn)
    tools,             \* the catalog the turn works with
    messages,          \* the caller-owned message list
    current_messages,  \* the working list of the turn
    pc,                \* "caller", "catalog", "servers", "discover", "start",
                       \* "request", "exec", "returned", "raised"
    round_index,       \* completion calls made by the loop
    content,           \* text of the last completion response
    tool_calls,        \* tool calls of the last completion response
    tc_index,          \* position of the `for tc in tool_calls` loop
    result,            \* the value the turn returned
    last_request,      \* the latest completion request: messages and tools sent
    n_completions,     \* completion calls issued in the turn
    n_tool_execs,      \* _call_tool invocations made in the turn
    executed,          \* the latest _call_tool invocation and what it did
    exc,               \* what the turn raised: "none", "completion", "tool", "TypeError"
    servers,           \* the rows `for s in servers` has still to visit
    list_requests,     \* the tools/list requests sent to dynamic servers, with the answers
    origin,            \* per catalog entry: the provider and the name it listed
    http_request,      \* the POST /chat request not yet handled, or NoPost
    http_response,     \* status, error detail and SSE events sent back
    chat_pc,           \* "idle", "stream", "orchestrating", "done"
    reply,             \* locals of the handler: message_text, is_test, dialog
    dialog_table,      \* whether the user has a row in table dialog
    message_table,     \* the rows of table message of that dialog, oldest first
    test_storage,      \* the in-memory history of the user's test chat
    gallery_group,     \* gallery service: table gallery.group
    gallery_image,     \* gallery service: table gallery.image
    gallery_call,      \* gallery service: the tools/call request it got
    gallery_reply,     \* gallery service: what it answered
    test_turn,         \* per concurrent test-chat turn: position and locals
    registry_read,     \* table mcp_server as the builder's query at line 72 saw it
    seen               \* servers that had tools in the catalog of an earlier turn

vars == <<tenant_id, mcp_server, tools, messages, current_messages, pc,
          round_index, content, tool_calls, tc_index, result, last_request,
          n_completions, n_tool_execs, executed, exc, servers, list_requests,
          origin, http_request, http_response, chat_pc, reply, dialog_table,
          message_table, test_storage, gallery_group, gallery_image,
          gallery_call, gallery_reply, test_turn, registry_read, seen>>

\* What is kept of the registry's past, to state properties over turns.
past_vars == <<registry_read, seen>>

\* What only the gallery service reads and writes.
gallery_vars == <<gallery_group, gallery_image, gallery_call, gallery_reply>>

\* What only the catalog builder writes.
catalog_vars == <<servers, list_requests, origin>>

\* What only the HTTP handler and _get_chat_reply write.
chat_vars == <<http_request, http_response, chat_pc, reply, dialog_table,
               message_table, test_storage>>

\* ------------------------------------------------------------ inputs
UserMessage(i) ==
    [role |-> "user", content |-> <<"m", ToString(i)>>,
     tool_calls |-> <<>>, tool_call_id |-> NoId]

History(n) == [i \in 1..n |-> UserMessage(i)]

\* Histories shorter than, equal to and longer than the context window.
HistoryLens == {0} \cup (CONTEXT_MESSAGE_LIMIT .. MaxHistory)

DictArgs(t) == [isdict |-> TRUE, tenant_id |-> t]
\* A JSON value that is no object and not falsy (json.loads accepts any JSON
\* document; `tc.get("arguments") or {}` turns the falsy ones into {}).
NonDictArgs == [isdict |-> FALSE, tenant_id |-> Absent]

\* What the model may put in the arguments: no tenant_id, or any tenant's.
ModelArguments == {DictArgs(t) : t \in Tenants \cup {Absent}} \cup {NonDictArgs}

DynamicName(id, inner) == <<"mcp_", id, "__">> \o inner

ToolNames ==
    GALLERY_TOOL_NAMES \cup RAG_TOOL_NAMES
    \cup {DynamicName(id, <<"x">>) : id \in UuidTokens \cup {"not-a-uuid"}}
    \cup {DynamicName("s1", <<"x", "__", "y">>),
          <<"mcp_", "mcp_", "s1", "__", "x">>,
          <<"mcp_", "s1">>,
          <<"foo">>,
          <<>>}

ToolCall(id, name, arguments) == [id |-> id, name |-> name, arguments |-> arguments]

\* The calls a response of a whole turn draws from: ids repeat and differ,
\* one name can fail in the backend, the other is unknown to the router.
LoopCalls ==
    {ToolCall("c1", <<"list_galleries">>, DictArgs(Absent)),
     ToolCall("c2", <<"list_galleries">>, DictArgs(Absent)),
     ToolCall("c2", <<"foo">>, DictArgs(Absent))}

\* The calls one routing step is tried on.
RouterCalls == {ToolCall("c1", n, a) : n \in ToolNames, a \in ModelArguments}

SeqsUpTo(S, k) == UNION {[1..n -> S] : n \in 0..k}

CompletionTexts == {<<>>, <<"see", GALLERY_PATH>>}
NetOutcomes == {"text", "error"}

BUILTIN_CATALOG == GALLERY_DESCRIPTORS \o RAG_DESCRIPTORS
Catalogs == {<<>>, BUILTIN_CATALOG}

LoopRegistry == {[id |-> "s1", tenant_id |-> "t1", enabled |-> TRUE]}

NoRequest == [messages |-> <<>>, with_tools |-> FALSE]
NoExec ==
    [call |-> ToolCall(NoId, <<>>, DictArgs(Absent)), caller |-> NoId,
     raised |-> FALSE, result |-> <<>>, outbound |-> <<>>]

\* ------------------------------------------------------------ messages
MutAssistantFirstCall(text, calls) ==
    [role |-> "assistant", content |-> text, tool_calls |-> <<calls[1]>>,
     tool_call_id |-> NoId]

\* assistant_msg = {"role": "assistant", "content": ..., "tool_calls": [...]}
AssistantMessage(text, calls) ==
    [role |-> "assistant", content |-> text, tool_calls |-> calls,
     tool_call_id |-> NoId]

ToolMessage(tid, text) ==
    [role |-> "tool", content |-> text, tool_calls |-> <<>>,
     tool_call_id |-> tid]

\* ------------------------------------------------------------ loop pieces
MutNeverFastPath(catalog) == FALSE

\* `if not tools:`
UseFastPath(catalog) == catalog = <<>>

MutWholeHistory(msgs) == msgs

\* current_messages = list(messages)[-CONTEXT_MESSAGE_LIMIT:]
WorkingCopy(msgs) == LastN(msgs, CONTEXT_MESSAGE_LIMIT)

MutUnboundedRounds(r) == TRUE

\* `for _ in range(MAX_TOOL_ROUNDS)`: another iteration follows r of them.
RoundsLeft(r) == r < MAX_TOOL_ROUNDS

MutFirstCallId(calls, i) == calls[1].id

\* tid = tc["id"]
CallIdOf(calls, i) == calls[i].id

MutNoTry(r) == [aborted |-> r.raised, text |-> r.result]

\* try: result = await _call_tool(...)  except Exception as e: result = f"Ошибка: {e}"
TryCallTool(r) ==
    [aborted |-> FALSE, text |-> IF r.raised THEN ERR_LOOP ELSE r.result]

MutSharedList(msgs, working) == working

\* current_messages is list(messages)[-N:], a new list: what is appended to
\* it does not show in the caller's list.
CallerSees(msgs, working) == msgs

MutRetryCompletion(p) == p

\* chat_once / chat_once_with_tools raised: the turn has no handler around the
\* call, so from position p control leaves the function with the exception.
OnCompletionError(p) == "raised"

MutDropsLastMessage(msgs) ==
    IF msgs = <<>> THEN msgs ELSE SubSeq(msgs, 1, Len(msgs) - 1)

\* messages=current_messages in the completion call of a round.
RequestMessages(msgs) == msgs

MutAlwaysFinal(calls) == TRUE

\* `if not tool_calls:` after a completion call of the loop.
FinalResponse(calls) == calls = <<>>

\* return content or "Достигнут лимит вызовов инструментов."
RoundLimitResult(text) == IF text = <<>> THEN ROUND_LIMIT_TEXT ELSE text

\* ------------------------------------------------------------ chat endpoint
\* The fixed assistant text stored when the orchestration raised.
ERROR_REPLY == <<"model or tool error">>
TEST_HISTORY_LIMIT == 10

\* The tenant's chat_max_user_message_chars setting, in characters.
ChatMaxChars == 2

\* Rows of table tenant.
TenantTable == {"t1"}

NoPost == [message |-> <<>>, is_test |-> FALSE, pending |-> FALSE]
NoResponse == [status |-> 0, detail |-> "", events |-> <<>>]
NoReply == [message_text |-> <<>>, is_test |-> FALSE, dialog |-> FALSE]

\* Message bodies, one token per character: empty, blank, plain, padded on
\* both sides, and longer than the tenant allows.
PostedMessages ==
    {<<>>, <<" ">>, <<" ", " ">>, <<"a">>, <<" ", "a", " ">>, <<"a", "a", "a">>}

\* ChatRequest: message: str = Field(..., min_length=1); a body that fails
\* validation is answered 422 before the handler runs.
ChatRequestValid(message) == Len(message) >= 1

RECURSIVE LStrip(_)
LStrip(s) ==
    IF s # <<>> /\ Head(s) = " " THEN LStrip(Tail(s)) ELSE s

RECURSIVE RStrip(_)
RStrip(s) ==
    IF s # <<>> /\ s[Len(s)] = " " THEN RStrip(SubSeq(s, 1, Len(s) - 1)) ELSE s

\* str.strip()
Strip(s) == RStrip(LStrip(s))

\* A row of table message, and the dict the history holds for it.
MessageRow(role, text) == [role |-> role, content |-> text]
HistoryEntry(row) ==
    [role |-> row.role, content |-> row.content, tool_calls |-> <<>>,
     tool_call_id |-> NoId]
HistoryOf(rows) == [i \in 1..Len(rows) |-> HistoryEntry(rows[i])]

\* An earlier exchange of the user.
EarlierExchange ==
    <<MessageRow("user", <<"q">>), MessageRow("assistant", <<"r">>)>>

MutNoSaveOnFailure(is_test, dialog) == FALSE

\* `if not is_test and dialog:` in the except branch of _get_chat_reply.
SavesOnFailure(is_test, dialog) == ~is_test /\ dialog

\* save_test_history: an empty history removes the key, otherwise the last
\* TEST_HISTORY_LIMIT entries are kept.
save_test_history(history) == LastN(history, TEST_HISTORY_LIMIT)

\* The events _sse_stream yields for a reply: one per chunk, then [DONE].
StreamOf(text) ==
    IF text = <<>> THEN <<"[DONE]">> ELSE <<"content", "[DONE]">>

\* No chat request is being handled.
NoChat ==
    /\ http_request = NoPost
    /\ http_response = NoResponse
    /\ chat_pc = "done"
    /\ reply = NoReply
    /\ dialog_table = FALSE
    /\ message_table = <<>>
    /\ test_storage = <<>>

\* ------------------------------------------------------------ gallery service
GroupIds == {"g1", "g2"}
ImageIds == {"i1", "i2"}

\* Rows of gallery.group and gallery.image.
GalleryGroupRows == [id : GroupIds, tenant_id : Tenants]
GalleryImageRows == [id : ImageIds, group_id : GroupIds]

\* The tables the keys allow: one row per id, every image in a stored group.
GalleryGroupTables ==
    {t \in SUBSET GalleryGroupRows : \A a, b \in t : a.id = b.id => a = b}
GalleryImageTables(groups) ==
    {t \in SUBSET GalleryImageRows :
        /\ \A a, b \in t : a.id = b.id => a = b
        /\ \A a \in t : \E g \in groups : g.id = a.group_id}

\* created_at: rows are created in the order of their ids.
CreatedAt(id) == IF id \in {"g1", "i1"} THEN 1 ELSE 2

RECURSIVE OrderByCreatedAt(_)
OrderByCreatedAt(rows) ==
    IF rows = {} THEN <<>>
    ELSE LET r == CHOOSE x \in rows :
                      \A y \in rows : CreatedAt(x.id) <= CreatedAt(y.id)
         IN  <<r>> \o OrderByCreatedAt(rows \ {r})

Reversed(lst) == [i \in 1..Len(lst) |-> lst[Len(lst) + 1 - i]]

\* Strings that UUID() accepts.
GalleryUuids == Tenants \cup GroupIds \cup {"g9"}

\* The arguments of a tools/call request to the gallery service.
GalleryArguments ==
    [tenant_id : Tenants \cup {Absent, "not-a-uuid"},
     group_id : GroupIds \cup {"g9", Absent, "not-a-uuid"}]

GalleryText(text, items) == [error |-> FALSE, text |-> text, items |-> items]

\* select(GalleryGroup).where(GalleryGroup.id == group_uuid)
SelectGroup(groups, tid, gid) == {g \in groups : g.id = gid}

\* f"/api/v1/tenants/{tid}/me/gallery/groups/{gid}/images/{img.id}/file"
ImagePath(tid, gid, img) == [tenant_id |-> tid, group_id |-> gid, image |-> img.id]

run_tool(groups, images, name, arguments) ==
    LET tid == arguments.tenant_id
        gid == arguments.group_id
    IN  IF tid = Absent THEN GalleryText("no tenant_id", <<>>)
        ELSE IF tid \notin GalleryUuids THEN GalleryText("bad tenant_id", <<>>)
        ELSE IF name = <<"list_galleries">> THEN
            LET own == Reversed(OrderByCreatedAt({g \in groups : g.tenant_id = tid}))
            IN  IF own = <<>> THEN GalleryText("no galleries", <<>>)
                ELSE GalleryText("galleries", [i \in 1..Len(own) |-> own[i].id])
        ELSE IF name = <<"show_gallery">> THEN
            IF gid = Absent THEN GalleryText("no group_id", <<>>)
            ELSE IF gid \notin GalleryUuids THEN GalleryText("bad group_id", <<>>)
            ELSE LET group == SelectGroup(groups, tid, gid)
                     shown == OrderByCreatedAt({i \in images : i.group_id = gid})
                 IN  IF group = {} THEN GalleryText("not found", <<>>)
                     ELSE IF shown = <<>> THEN GalleryText("empty gallery", <<>>)
                     ELSE GalleryText("gallery",
                              [i \in 1..Len(shown) |-> ImagePath(tid, gid, shown[i])])
        ELSE GalleryText("unknown tool", <<>>)

\* The names a tools/call request carries; <<>> is a request without a name.
GalleryCallNames == GALLERY_TOOL_NAMES \cup {<<"foo">>, <<>>}

NoGalleryCall == [name |-> <<>>, arguments |-> [tenant_id |-> Absent, group_id |-> Absent],
                  pending |-> FALSE]
NoGalleryReply == [error |-> FALSE, text |-> "", items |-> <<>>]

\* The gallery service is not in the picture.
NoGallery ==
    /\ gallery_group = {}
    /\ gallery_image = {}
    /\ gallery_call = NoGalleryCall
    /\ gallery_reply = NoGalleryReply

\* ------------------------------------------------------------ concurrent test turns
\* Two requests of one (tenant, user) in test mode, handled on one event loop.
TurnIds == {"A", "B"}

\* Exchanges the test history holds before the two turns, at most.
MaxStoredPairs == 5

StoredExchanges(k) ==
    [i \in 1..(2 * k) |->
        IF i % 2 = 1 THEN MessageRow("user", <<"q", (i + 1) \div 2>>)
        ELSE MessageRow("assistant", <<"r", i \div 2>>)]

\* What each request asks, and what the orchestration may answer to it.
TurnMessage(t) == <<"ask", t>>
TurnReplies(t) == {<<>>, <<"answer", t>>}

IdleTurn == [pc |-> "idle", previous_history |-> <<>>, final_text |-> <<>>]

MutStaleHistory(stored, previous_history) == previous_history

\* prev = get_test_history(tenant_id, user_id), read again after the
\* orchestration; no await stands between this read and the save.
HistoryAtSave(stored, previous_history) == stored

\* No concurrent test turns are in the picture.
NoTestTurns == test_turn = [t \in TurnIds |-> IdleTurn]

\* ------------------------------------------------------------ turns and administration
\* What a dynamic server answers tools/list with while the registry changes.
TurnListResponses ==
    {[failed |-> TRUE, tools |-> <<>>],
     [failed |-> FALSE, tools |-> <<McpTool(<<"x">>, {}, {})>>]}

MutCachedOut(prev, fresh) == prev

\* out: list[dict] = [] -- every call of the builder starts from a new list
\* and extends it with what the built-in providers return.
NewOut(prev, fresh) == fresh

\* No turn has listed the registry yet.
NoPast ==
    /\ registry_read = {}
    /\ seen = {}

\* ------------------------------------------------------------ initial states
InitTurn(p) ==
    /\ tenant_id \in Tenants
    /\ messages \in {History(n) : n \in HistoryLens}
    /\ current_messages = <<>>
    /\ pc = p
    /\ round_index = 0
    /\ content = <<>>
    /\ tool_calls = <<>>
    /\ tc_index = 0
    /\ result = <<>>
    /\ last_request = NoRequest
    /\ n_completions = 0
    /\ n_tool_execs = 0
    /\ executed = NoExec
    /\ exc = "none"
    /\ servers = <<>>
    /\ list_requests = <<>>
    /\ origin = <<>>
    /\ NoChat
    /\ NoGallery
    /\ NoTestTurns
    /\ NoPast

\* The turn after line 138, entered with the catalog the builder handed over.
Init ==
    /\ InitTurn("start")
    /\ mcp_server = LoopRegistry
    /\ tools \in Catalogs

\* The turn at its first line, the catalog still to be built.
InitCatalog ==
    /\ InitTurn("catalog")
    /\ mcp_server \in Registries
    /\ tools = <<>>

\* The loop at `for tc in tool_calls`, round 1 having requested one call.
InitRouter ==
    /\ tenant_id \in Tenants
    /\ mcp_server \in Registries
    /\ tools = BUILTIN_CATALOG
    /\ messages = <<>>
    /\ \E tc \in RouterCalls :
        /\ tool_calls = <<tc>>
        /\ current_messages = <<AssistantMessage(<<>>, <<tc>>)>>
    /\ pc = "exec"
    /\ round_index = 1
    /\ content = <<>>
    /\ tc_index = 1
    /\ result = <<>>
    /\ last_request = [messages |-> <<>>, with_tools |-> TRUE]
    /\ n_completions = 1
    /\ n_tool_execs = 0
    /\ executed = NoExec
    /\ exc = "none"
    /\ servers = <<>>
    /\ list_requests = <<>>
    /\ origin = <<>>
    /\ NoChat
    /\ NoGallery
    /\ NoTestTurns
    /\ NoPast

\* ------------------------------------------------------------ actions
\* tools = await _get_all_tools_for_llm(tenant_id, db)
BuildCatalog ==
    /\ pc = "catalog"
    /\ \E gallery_up \in BOOLEAN, rag_up \in BOOLEAN,
          disc \in [RegisteredIds -> ListResponses] :
        LET r == get_all_tools_for_llm(tenant_id, mcp_server, gallery_up,
                                       rag_up, disc)
        IN  /\ pc' = IF r.raised THEN "raised" ELSE "start"
            /\ exc' = IF r.raised THEN "TypeError" ELSE "none"
            /\ tools' = r.out
    /\ UNCHANGED catalog_vars
    /\ UNCHANGED chat_vars
    /\ UNCHANGED <<tenant_id, mcp_server, messages, current_messages,
                   round_index, content, tool_calls, tc_index, result,
                   last_request, n_completions, n_tool_execs, executed>>
    /\ UNCHANGED gallery_vars
    /\ UNCHANGED test_turn
    /\ UNCHANGED past_vars

\* The branch `if not tools`: one chat_once call, no tools parameter.
FastPath ==
    /\ pc = "start"
    /\ UseFastPath(tools)
    /\ current_messages' = WorkingCopy(messages)
    /\ last_request' = [messages |-> current_messages', with_tools |-> FALSE]
    /\ n_completions' = n_completions + 1
    /\ \E ok \in BOOLEAN, text \in CompletionTexts :
        IF ok
        THEN /\ pc' = "returned"
             /\ content' = text
             /\ result' = text
             /\ UNCHANGED exc
        ELSE /\ pc' = OnCompletionError(pc)
             /\ exc' = "completion"
             /\ UNCHANGED <<content, result>>
    /\ UNCHANGED catalog_vars
    /\ UNCHANGED chat_vars
    /\ UNCHANGED <<tenant_id, mcp_server, tools, messages, round_index,
                   tool_calls, tc_index, n_tool_execs, executed>>
    /\ UNCHANGED gallery_vars
    /\ UNCHANGED test_turn
    /\ UNCHANGED past_vars

\* Lines 162-164: the working copy, cut to the context window.
EnterLoop ==
    /\ pc = "start"
    /\ ~UseFastPath(tools)
    /\ current_messages' = WorkingCopy(messages)
    /\ round_index' = 0
    /\ pc' = "request"
    /\ UNCHANGED catalog_vars
    /\ UNCHANGED chat_vars
    /\ UNCHANGED <<tenant_id, mcp_server, tools, messages, content,
                   tool_calls, tc_index, result, last_request, n_completions,
                   n_tool_execs, executed, exc>>
    /\ UNCHANGED gallery_vars
    /\ UNCHANGED test_turn
    /\ UNCHANGED past_vars

\* One iteration up to the tool calls: the completion call, then either the
\* final answer or the assistant message that carries the requested calls.
Complete ==
    /\ pc = "request"
    /\ n_completions' = n_completions + 1
    /\ last_request' = [messages |-> RequestMessages(current_messages),
                         with_tools |-> TRUE]
    /\ \E ok \in BOOLEAN, text \in CompletionTexts,
          calls \in SeqsUpTo(LoopCalls, MaxToolCalls - n_tool_execs) :
        IF ~ok
        THEN /\ pc' = OnCompletionError(pc)
             /\ exc' = "completion"
             /\ UNCHANGED <<content, tool_calls, tc_index, round_index,
                            current_messages, result>>
        ELSE /\ content' = text
             /\ UNCHANGED exc
             /\ tool_calls' = calls
             /\ round_index' = round_index + 1
             /\ IF FinalResponse(calls)
                THEN /\ pc' = "returned"
                     /\ result' = inject_base_url_to_image_paths(text)
                     /\ UNCHANGED <<current_messages, tc_index>>
                ELSE /\ pc' = "exec"
                     /\ tc_index' = 1
                     /\ current_messages' =
                            Append(current_messages, AssistantMessage(text, calls))
                     /\ UNCHANGED result
    /\ messages' = CallerSees(messages, current_messages')
    /\ UNCHANGED catalog_vars
    /\ UNCHANGED chat_vars
    /\ UNCHANGED <<tenant_id, mcp_server, tools, n_tool_execs, executed>>
    /\ UNCHANGED gallery_vars
    /\ UNCHANGED test_turn
    /\ UNCHANGED past_vars

\* One iteration of `for tc in tool_calls`; after the last call of the round
\* the loop goes on to the next completion call, or, the rounds used up, to
\* the return after the loop.
ExecTool ==
    /\ pc = "exec"
    /\ \E net \in NetOutcomes :
        LET tc == tool_calls[tc_index]
            tid == CallIdOf(tool_calls, tc_index)
            r == call_tool(tenant_id, tc.name, tc.arguments, mcp_server, net)
            t == TryCallTool(r)
        IN  /\ executed' = [call |-> tc, caller |-> tenant_id,
                            raised |-> r.raised, result |-> r.result,
                            outbound |-> r.outbound]
            /\ n_tool_execs' = n_tool_execs + 1
            /\ IF t.aborted
               THEN /\ pc' = "raised"
                    /\ exc' = "tool"
                    /\ UNCHANGED <<current_messages, tc_index, result>>
               ELSE /\ exc' = "none"
                    /\ current_messages' =
                           Append(current_messages, ToolMessage(tid, t.text))
                    /\ IF tc_index < Len(tool_calls)
                       THEN /\ tc_index' = tc_index + 1
                            /\ pc' = "exec"
                            /\ UNCHANGED result
                       ELSE /\ tc_index' = 0
                            /\ IF RoundsLeft(round_index)
                               THEN /\ pc' = "request"
                                    /\ UNCHANGED result
                               ELSE /\ pc' = "returned"
                                    /\ result' = RoundLimitResult(content)
    /\ messages' = CallerSees(messages, current_messages')
    /\ UNCHANGED catalog_vars
    /\ UNCHANGED chat_vars
    /\ UNCHANGED <<tenant_id, mcp_server, tools, round_index,
                   content, tool_calls, last_request, n_completions>>
    /\ UNCHANGED gallery_vars
    /\ UNCHANGED test_turn
    /\ UNCHANGED past_vars

Next == FastPath \/ EnterLoop \/ Complete \/ ExecTool
Spec == Init /\ [][Next]_vars

NextCatalog == BuildCatalog
SpecCatalog == InitCatalog /\ [][NextCatalog]_vars

NextRouter == ExecTool
SpecRouter == InitRouter /\ [][NextRouter]_vars

\* ------------------------------------------------------------ server discovery
BuiltinOrigins(descriptors) ==
    [i \in 1..Len(descriptors) |->
        [server |-> "builtin", name |-> descriptors[i].name]]

\* The builder at line 72: out holds what the two built-in providers return
\* when awaited, each of them up or down.
InitDiscovery ==
    /\ tenant_id \in Tenants
    /\ mcp_server \in Registries
    /\ \E gallery_up \in BOOLEAN, rag_up \in BOOLEAN :
          tools = Await(Coroutine(get_gallery_tools_for_llm(gallery_up))).items
                  \o Await(Coroutine(get_rag_tools_for_llm(rag_up))).items
    /\ origin = BuiltinOrigins(tools)
    /\ servers = <<>>
    /\ list_requests = <<>>
    /\ NoChat
    /\ messages = <<>>
    /\ current_messages = <<>>
    /\ pc = "servers"
    /\ round_index = 0
    /\ content = <<>>
    /\ tool_calls = <<>>
    /\ tc_index = 0
    /\ result = <<>>
    /\ last_request = NoRequest
    /\ n_completions = 0
    /\ n_tool_execs = 0
    /\ executed = NoExec
    /\ exc = "none"
    /\ NoGallery
    /\ NoTestTurns
    /\ NoPast

\* servers = await list_mcp_servers(db, tenant_id)
ListServers ==
    /\ pc = "servers"
    /\ servers' = list_mcp_servers(mcp_server, tenant_id)
    /\ registry_read' = mcp_server
    /\ pc' = "discover"
    /\ UNCHANGED seen
    /\ UNCHANGED <<tenant_id, mcp_server, tools, messages, current_messages,
                   round_index, content, tool_calls, tc_index, result,
                   last_request, n_completions, n_tool_execs, executed, exc,
                   list_requests, origin>>
    /\ UNCHANGED chat_vars
    /\ UNCHANGED gallery_vars
    /\ UNCHANGED test_turn

\* One iteration of `for s in servers`: a disabled server is passed over; an
\* enabled one is sent tools/list and what it lists is appended to out.
Visit(responses) ==
    /\ pc = "discover"
    /\ servers # <<>>
    /\ \E response \in responses :
        LET s == Head(servers)
            listed == ServerTools(s, response)
        IN  /\ tools' = tools \o DescriptorsOf(listed)
            /\ origin' = origin \o OriginsOf(listed)
            /\ list_requests' =
                   IF Skipped(s)
                   THEN list_requests
                   ELSE list_requests
                        \o mcp_request([server |-> s.id, response |-> response],
                                       IF response.failed THEN "error"
                                       ELSE "text")
    /\ servers' = Tail(servers)
    /\ UNCHANGED <<tenant_id, mcp_server, messages, current_messages, pc,
                   round_index, content, tool_calls, tc_index, result,
                   last_request, n_completions, n_tool_execs, executed, exc>>
    /\ UNCHANGED chat_vars
    /\ UNCHANGED gallery_vars
    /\ UNCHANGED test_turn
    /\ UNCHANGED past_vars

VisitServer == Visit(ListResponses)

\* return out
ReturnCatalog ==
    /\ pc = "discover"
    /\ servers = <<>>
    /\ pc' = "start"
    /\ UNCHANGED <<tenant_id, mcp_server, tools, messages, current_messages,
                   round_index, content, tool_calls, tc_index, result,
                   last_request, n_completions, n_tool_execs, executed, exc>>
    /\ UNCHANGED catalog_vars
    /\ UNCHANGED chat_vars
    /\ UNCHANGED gallery_vars
    /\ UNCHANGED test_turn
    /\ UNCHANGED past_vars

NextDiscovery == ListServers \/ VisitServer \/ ReturnCatalog
SpecDiscovery == InitDiscovery /\ [][NextDiscovery]_vars

\* ------------------------------------------------------------ chat turn over HTTP
Reject(status, detail) ==
    /\ http_response' = [status |-> status, detail |-> detail, events |-> <<>>]
    /\ chat_pc' = "done"
    /\ UNCHANGED reply

\* A POST /chat request has arrived; the user may have an earlier exchange,
\* stored and in the test history.  The catalog is the one the builder hands
\* to the turn.
InitChat ==
    /\ tenant_id \in Tenants
    /\ mcp_server = LoopRegistry
    /\ tools \in Catalogs
    /\ messages = <<>>
    /\ current_messages = <<>>
    /\ pc = "caller"
    /\ round_index = 0
    /\ content = <<>>
    /\ tool_calls = <<>>
    /\ tc_index = 0
    /\ result = <<>>
    /\ last_request = NoRequest
    /\ n_completions = 0
    /\ n_tool_execs = 0
    /\ executed = NoExec
    /\ exc = "none"
    /\ servers = <<>>
    /\ list_requests = <<>>
    /\ origin = <<>>
    /\ http_request \in [message : PostedMessages, is_test : BOOLEAN,
                         pending : {TRUE}]
    /\ http_response = NoResponse
    /\ chat_pc = "idle"
    /\ reply = NoReply
    /\ dialog_table \in BOOLEAN
    /\ message_table = IF dialog_table THEN EarlierExchange ELSE <<>>
    /\ test_storage = message_table
    /\ NoGallery
    /\ NoTestTurns
    /\ NoPast

\* post_message, preceded by the validation of the body against ChatRequest.
PostMessage ==
    /\ chat_pc = "idle"
    /\ http_request.pending
    /\ LET message_text == Strip(http_request.message)
       IN  IF ~ChatRequestValid(http_request.message) THEN
               Reject(422, "validation error")
           ELSE IF message_text = <<>> THEN
               Reject(400, "message must not be empty")
           ELSE IF tenant_id \notin TenantTable THEN
               Reject(404, "tenant not found")
           ELSE IF Len(message_text) > ChatMaxChars THEN
               Reject(400, "message too long")
           ELSE
               /\ http_response' = [status |-> 200, detail |-> "", events |-> <<>>]
               /\ chat_pc' = "stream"
               /\ reply' = [message_text |-> message_text,
                            is_test |-> http_request.is_test, dialog |-> FALSE]
    /\ http_request' = NoPost
    /\ UNCHANGED <<tenant_id, mcp_server, tools, messages, current_messages, pc,
                   round_index, content, tool_calls, tc_index, result,
                   last_request, n_completions, n_tool_execs, executed, exc,
                   dialog_table, message_table, test_storage>>
    /\ UNCHANGED catalog_vars
    /\ UNCHANGED gallery_vars
    /\ UNCHANGED test_turn
    /\ UNCHANGED past_vars

\* _get_chat_reply up to the call of the orchestration (lines 40-63), run by
\* _sse_stream: prompt, dialog, history, the user message saved.
BeginReply ==
    /\ chat_pc = "stream"
    /\ \E prompt_found \in BOOLEAN :
        LET user == MessageRow("user", reply.message_text)
        IN  IF ~prompt_found THEN
                /\ http_response' = [http_response EXCEPT !.events = <<"error">>]
                /\ chat_pc' = "done"
                /\ UNCHANGED <<reply, dialog_table, message_table, messages, pc>>
            ELSE IF reply.is_test THEN
                /\ messages' = HistoryOf(Append(test_storage, user))
                /\ pc' = "start"
                /\ chat_pc' = "orchestrating"
                /\ UNCHANGED <<reply, dialog_table, message_table, http_response>>
            ELSE
                /\ dialog_table' = TRUE
                /\ messages' = HistoryOf(Append(message_table, user))
                /\ message_table' = Append(message_table, user)
                /\ reply' = [reply EXCEPT !.dialog = TRUE]
                /\ pc' = "start"
                /\ chat_pc' = "orchestrating"
                /\ UNCHANGED http_response
    /\ UNCHANGED <<tenant_id, mcp_server, tools, current_messages,
                   round_index, content, tool_calls, tc_index, result,
                   last_request, n_completions, n_tool_execs, executed, exc,
                   http_request, test_storage>>
    /\ UNCHANGED catalog_vars
    /\ UNCHANGED gallery_vars
    /\ UNCHANGED test_turn
    /\ UNCHANGED past_vars

\* _get_chat_reply after the orchestration (lines 73-93) and the events
\* _sse_stream sends for its outcome.
EndReply ==
    /\ chat_pc = "orchestrating"
    /\ pc \in {"returned", "raised"}
    /\ IF pc = "raised" THEN
           /\ message_table' =
                  IF SavesOnFailure(reply.is_test, reply.dialog)
                  THEN Append(message_table, MessageRow("assistant", ERROR_REPLY))
                  ELSE message_table
           /\ http_response' = [http_response EXCEPT !.events = <<"error">>]
           /\ UNCHANGED test_storage
       ELSE
           /\ test_storage' =
                  IF reply.is_test
                  THEN save_test_history(
                           test_storage \o <<MessageRow("user", reply.message_text),
                                             MessageRow("assistant", result)>>)
                  ELSE test_storage
           /\ message_table' =
                  IF ~reply.is_test /\ reply.dialog
                  THEN Append(message_table, MessageRow("assistant", result))
                  ELSE message_table
           /\ http_response' = [http_response EXCEPT !.events = StreamOf(result)]
    /\ chat_pc' = "done"
    /\ UNCHANGED <<tenant_id, mcp_server, tools, messages, current_messages, pc,
                   round_index, content, tool_calls, tc_index, result,
                   last_request, n_completions, n_tool_execs, executed, exc,
                   http_request, reply, dialog_table>>
    /\ UNCHANGED catalog_vars
    /\ UNCHANGED gallery_vars
    /\ UNCHANGED test_turn
    /\ UNCHANGED past_vars

NextChat ==
    PostMessage \/ BeginReply \/ FastPath \/ EnterLoop \/ Complete \/ ExecTool
    \/ EndReply
SpecChat == InitChat /\ [][NextChat]_vars

\* ------------------------------------------------------------ gallery service, tools/call
\* A tools/call request has reached POST /mcp of the gallery service.
InitGallery ==
    /\ tenant_id \in Tenants
    /\ mcp_server = {}
    /\ tools = <<>>
    /\ messages = <<>>
    /\ current_messages = <<>>
    /\ pc = "caller"
    /\ round_index = 0
    /\ content = <<>>
    /\ tool_calls = <<>>
    /\ tc_index = 0
    /\ result = <<>>
    /\ last_request = NoRequest
    /\ n_completions = 0
    /\ n_tool_execs = 0
    /\ executed = NoExec
    /\ exc = "none"
    /\ servers = <<>>
    /\ list_requests = <<>>
    /\ origin = <<>>
    /\ NoChat
    /\ gallery_group \in GalleryGroupTables
    /\ gallery_image \in GalleryImageTables(gallery_group)
    /\ gallery_call \in [name : GalleryCallNames, arguments : GalleryArguments,
                         pending : {TRUE}]
    /\ gallery_reply = NoGalleryReply
    /\ NoTestTurns
    /\ NoPast

\* mcp_handler, method tools/call.
GalleryToolsCall ==
    /\ gallery_call.pending
    /\ gallery_reply' =
           IF gallery_call.name = <<>>
           THEN [error |-> TRUE, text |-> "Missing tool name", items |-> <<>>]
           ELSE run_tool(gallery_group, gallery_image, gallery_call.name,
                         gallery_call.arguments)
    /\ gallery_call' = [gallery_call EXCEPT !.pending = FALSE]
    /\ UNCHANGED <<gallery_group, gallery_image>>
    /\ UNCHANGED <<tenant_id, mcp_server, tools, messages, current_messages, pc,
                   round_index, content, tool_calls, tc_index, result,
                   last_request, n_completions, n_tool_execs, executed, exc>>
    /\ UNCHANGED catalog_vars
    /\ UNCHANGED chat_vars
    /\ UNCHANGED test_turn
    /\ UNCHANGED past_vars

NextGallery == GalleryToolsCall
SpecGallery == InitGallery /\ [][NextGallery]_vars

\* ------------------------------------------------------------ two test turns at once
\* Both requests have been accepted; the history holds earlier exchanges.
InitTestTurns ==
    /\ tenant_id = "t1"
    /\ mcp_server = {}
    /\ tools = <<>>
    /\ messages = <<>>
    /\ current_messages = <<>>
    /\ pc = "caller"
    /\ round_index = 0
    /\ content = <<>>
    /\ tool_calls = <<>>
    /\ tc_index = 0
    /\ result = <<>>
    /\ last_request = NoRequest
    /\ n_completions = 0
    /\ n_tool_execs = 0
    /\ executed = NoExec
    /\ exc = "none"
    /\ servers = <<>>
    /\ list_requests = <<>>
    /\ origin = <<>>
    /\ http_request = NoPost
    /\ http_response = NoResponse
    /\ chat_pc = "done"
    /\ reply = NoReply
    /\ dialog_table = FALSE
    /\ message_table = <<>>
    /\ \E k \in 0..MaxStoredPairs :
          test_storage = save_test_history(StoredExchanges(k))
    /\ NoGallery
    /\ NoTestTurns
    /\ NoPast

TestTurnUnchanged ==
    /\ UNCHANGED <<tenant_id, mcp_server, tools, messages, current_messages, pc,
                   round_index, content, tool_calls, tc_index, result,
                   last_request, n_completions, n_tool_execs, executed, exc>>
    /\ UNCHANGED <<http_request, http_response, chat_pc, reply, dialog_table,
                   message_table>>
    /\ UNCHANGED catalog_vars
    /\ UNCHANGED gallery_vars
    /\ UNCHANGED past_vars

\* Lines 50-54: the turn reads the history and goes into the orchestration,
\* where it awaits.
TestTurnBegin ==
    /\ \E t \in TurnIds :
        /\ test_turn[t].pc = "idle"
        /\ test_turn' = [test_turn EXCEPT ![t] =
               [pc |-> "orchestrating", previous_history |-> test_storage,
                final_text |-> <<>>]]
    /\ UNCHANGED test_storage
    /\ TestTurnUnchanged

\* Lines 84-90: the orchestration has returned final_text; the turn reads the
\* history again, appends its exchange and saves.
TestTurnSave ==
    /\ \E t \in TurnIds :
        /\ test_turn[t].pc = "orchestrating"
        /\ \E final_text \in TurnReplies(t) :
            LET prev == HistoryAtSave(test_storage, test_turn[t].previous_history)
                new_history == prev \o <<MessageRow("user", TurnMessage(t)),
                                         MessageRow("assistant", final_text)>>
            IN  /\ test_storage' = save_test_history(new_history)
                /\ test_turn' = [test_turn EXCEPT ![t].pc = "done",
                                                  ![t].final_text = final_text]
    /\ TestTurnUnchanged

\* Lines 73-83: the orchestration raised; a test turn saves nothing.
TestTurnRaise ==
    /\ \E t \in TurnIds :
        /\ test_turn[t].pc = "orchestrating"
        /\ test_turn' = [test_turn EXCEPT ![t].pc = "raised"]
    /\ UNCHANGED test_storage
    /\ TestTurnUnchanged

NextTestTurns == TestTurnBegin \/ TestTurnSave \/ TestTurnRaise
SpecTestTurns == InitTestTurns /\ [][NextTestTurns]_vars

\* ------------------------------------------------------------ turns while the registry changes
\* The first turn's builder at line 72; later turns follow, and the cabinet's
\* MCP-server operations run in between at any await.
InitAdmin ==
    /\ InitDiscovery

\* The next turn calls the builder (line 138): a new out, the built-in tools.
StartTurn ==
    /\ pc = "start"
    /\ \E gallery_up \in BOOLEAN, rag_up \in BOOLEAN :
        LET builtin == Await(Coroutine(get_gallery_tools_for_llm(gallery_up))).items
                       \o Await(Coroutine(get_rag_tools_for_llm(rag_up))).items
            out == NewOut([tools |-> tools, origin |-> origin],
                          [tools |-> builtin, origin |-> BuiltinOrigins(builtin)])
        IN  /\ tools' = out.tools
            /\ origin' = out.origin
    /\ seen' = seen \cup ({origin[i].server : i \in 1..Len(origin)} \ {"builtin"})
    /\ servers' = <<>>
    /\ list_requests' = <<>>
    /\ pc' = "servers"
    /\ UNCHANGED <<tenant_id, mcp_server, messages, current_messages,
                   round_index, content, tool_calls, tc_index, result,
                   last_request, n_completions, n_tool_execs, executed, exc,
                   registry_read>>
    /\ UNCHANGED chat_vars
    /\ UNCHANGED gallery_vars
    /\ UNCHANGED test_turn

VisitListed == Visit(TurnListResponses)

AdminUnchanged ==
    /\ UNCHANGED <<tenant_id, tools, messages, current_messages, pc,
                   round_index, content, tool_calls, tc_index, result,
                   last_request, n_completions, n_tool_execs, executed, exc>>
    /\ UNCHANGED catalog_vars
    /\ UNCHANGED chat_vars
    /\ UNCHANGED gallery_vars
    /\ UNCHANGED test_turn
    /\ UNCHANGED past_vars

\* create_mcp_server: a new row, the newest of the table (so its id sorts
\* before the stored ones); an id that has been in use is not given again.
AdminCreate ==
    /\ \E id \in RegisteredIds, t \in Tenants, enabled \in BOOLEAN :
        /\ id \notin seen
        /\ \A r \in mcp_server : r.id # id /\ NameLeq(id, r.id)
        /\ mcp_server' = mcp_server
                         \cup {[id |-> id, tenant_id |-> t, enabled |-> enabled]}
    /\ AdminUnchanged

\* update_mcp_server on the row get_mcp_server found: enabled is set when the
\* request gives it.
AdminUpdate ==
    /\ \E r \in mcp_server, enabled \in BOOLEAN :
        mcp_server' = (mcp_server \ {r}) \cup {[r EXCEPT !.enabled = enabled]}
    /\ AdminUnchanged

\* delete_mcp_server on the row get_mcp_server found.
AdminDelete ==
    /\ \E r \in mcp_server : mcp_server' = mcp_server \ {r}
    /\ AdminUnchanged

NextAdmin ==
    StartTurn \/ ListServers \/ VisitListed \/ ReturnCatalog
    \/ AdminCreate \/ AdminUpdate \/ AdminDelete
SpecAdmin == InitAdmin /\ [][NextAdmin]_vars

\* ------------------------------------------------------------ properties
\* Position of the assistant message of the latest round with tool calls; 0 if
\* the turn has appended none.
RoundStart ==
    LET idx == {i \in 1..Len(current_messages) :
                    current_messages[i].role = "assistant"}
    IN  IF idx = {} THEN 0 ELSE CHOOSE i \in idx : \A j \in idx : j <= i

\* The tool-result messages appended after that assistant message.
RoundResults == SubSeq(current_messages, RoundStart + 1, Len(current_messages))

IdsOf(calls) == {calls[i].id : i \in 1..Len(calls)}
ResultIdsOf(msgs) == {msgs[i].tool_call_id : i \in 1..Len(msgs)}

\* The turn ran into the round cap: it returned although the last response
\* still requested tools.
AtRoundCap == pc = "returned" /\ tool_calls # <<>>

\* C1 (as stated): with a non-empty catalog the turn makes at most
\* MAX_TOOL_ROUNDS completion calls and returns, never raising, the last
\* response's text if that is non-empty and the fixed fallback text otherwise.
C1_AsStated ==
    tools # <<>> =>
        /\ n_completions <= MAX_TOOL_ROUNDS
        /\ pc = "returned" =>
              result = IF content # <<>> THEN content ELSE ROUND_LIMIT_TEXT

\* C1 (amended): with a non-empty catalog the turn makes at most
\* MAX_TOOL_ROUNDS completion calls; after the last permitted one no further
\* request is pending; nothing but a failed completion call makes it raise; at
\* the round cap it returns the last text, or the fallback text if that is
\* empty; a response without tool calls ends the turn with that response's
\* text, gallery paths rewritten, even when it is empty.
C1_RoundCap ==
    tools # <<>> =>
        /\ n_completions <= MAX_TOOL_ROUNDS
        /\ n_completions = IF exc = "completion" THEN round_index + 1
                           ELSE round_index
        /\ pc = "request" => n_completions < MAX_TOOL_ROUNDS
        /\ pc = "raised" => exc = "completion"
        /\ AtRoundCap =>
              /\ n_completions = MAX_TOOL_ROUNDS
              /\ result = IF content # <<>> THEN content ELSE ROUND_LIMIT_TEXT
        /\ (pc = "returned" /\ tool_calls = <<>>) =>
              result = IF content = <<>> THEN <<>>
                       ELSE <<"see", FRONTEND_BASE_URL, GALLERY_PATH>>

\* Three rounds that all requested tools, the last with no text: the fallback.
C1_Witness ==
    /\ AtRoundCap
    /\ n_completions = MAX_TOOL_ROUNDS
    /\ n_tool_execs = MAX_TOOL_ROUNDS
    /\ content = <<>>
    /\ result = ROUND_LIMIT_TEXT

\* C2: the catalog builder never raises, and the catalog it hands to the turn
\* holds at least the gallery and the retrieval descriptors.
C2_CatalogNeverRaises ==
    /\ pc # "raised"
    /\ pc = "start" =>
          \A i \in 1..Len(BUILTIN_CATALOG) :
              \E j \in 1..Len(tools) : tools[j] = BUILTIN_CATALOG[i]

\* C3: in a round with tool calls the k-th tool-result message appended
\* carries the id of the k-th requested call, and once the round is over the
\* ids of its tool-result messages are exactly the ids of the assistant
\* message's tool calls, one message per call.
C3_CallIdsRoundTrip ==
    RoundStart > 0 =>
        LET calls == current_messages[RoundStart].tool_calls
            res == RoundResults
        IN  /\ Len(res) <= Len(calls)
            /\ \A k \in 1..Len(res) :
                  /\ res[k].role = "tool"
                  /\ res[k].tool_call_id = calls[k].id
            /\ pc \in {"request", "returned"} =>
                  /\ Len(res) = Len(calls)
                  /\ ResultIdsOf(res) = IdsOf(calls)

\* A finished round of two calls with different ids, both answered.
C3_Witness ==
    /\ pc = "request"
    /\ RoundStart > 0
    /\ Len(RoundResults) = 2
    /\ ResultIdsOf(RoundResults) = {"c1", "c2"}
    /\ RoundResults[1].tool_call_id # RoundResults[2].tool_call_id

\* C4: with an empty catalog the turn makes exactly one completion call, sends
\* no tools with it, executes no tool call and returns that call's text.
C4_EmptyCatalogFastPath ==
    tools = <<>> =>
        /\ n_completions <= 1
        /\ n_tool_execs = 0
        /\ current_messages \in {<<>>, LastN(messages, CONTEXT_MESSAGE_LIMIT)}
        /\ pc \in {"returned", "raised"} =>
              /\ n_completions = 1
              /\ ~last_request.with_tools
        /\ pc = "returned" => result = content

C4_Witness ==
    /\ tools = <<>>
    /\ pc = "returned"
    /\ n_completions = 1
    /\ result = <<"see", GALLERY_PATH>>

\* C5 (as stated): every completion request of a turn, the first and the
\* later ones, holds at most CONTEXT_MESSAGE_LIMIT messages.
C5_AsStated ==
    Len(last_request.messages) <= CONTEXT_MESSAGE_LIMIT

\* C5 (amended): the history is cut to its last CONTEXT_MESSAGE_LIMIT messages
\* once, before the first request, which therefore holds at most that many;
\* every later request holds that cut history followed by the assistant and
\* tool-result messages the turn has appended, so at most the limit plus one
\* message per earlier round plus one per executed tool call.
C5_TruncatedOnce ==
    n_completions >= 1 =>
        LET base == LastN(messages, CONTEXT_MESSAGE_LIMIT)
            sent == last_request.messages
        IN  /\ Len(base) <= CONTEXT_MESSAGE_LIMIT
            /\ Len(sent) >= Len(base)
            /\ SubSeq(sent, 1, Len(base)) = base
            /\ \A i \in (Len(base) + 1)..Len(sent) : sent[i].role # "user"
            /\ n_completions = 1 => sent = base
            /\ Len(sent) <= CONTEXT_MESSAGE_LIMIT + (n_completions - 1)
                                + n_tool_execs

\* A history longer than the window, cut for the first request, and a second
\* request that is longer than the window.
C5_Witness ==
    /\ Len(messages) > CONTEXT_MESSAGE_LIMIT
    /\ n_completions = 2
    /\ Len(last_request.messages) > CONTEXT_MESSAGE_LIMIT
    /\ last_request.messages[1] = messages[Len(messages) - CONTEXT_MESSAGE_LIMIT + 1]

\* C6: the router never raises, whatever the tool name and the backend do.
C6_RouterNeverRaises ==
    ~executed.raised

C8_TenantInjected ==
    \A i \in 1..Len(executed.outbound) :
        LET name == executed.call.name
            sent == executed.outbound[i]
        IN  /\ name \in GALLERY_TOOL_NAMES
                        \cup {<<"list_documents">>, <<"search_documents">>}
                  => sent.tenant_id = tenant_id
            /\ name = <<"get_document">>
                  => sent.tenant_id = executed.call.arguments.tenant_id

\* The model named another tenant; the request names the caller.
C8_Witness ==
    /\ executed.call.name = <<"search_documents">>
    /\ executed.call.arguments.tenant_id \in Tenants \ {tenant_id}
    /\ Len(executed.outbound) = 1
    /\ executed.outbound[1].tenant_id = tenant_id

\* C9: a call named mcp_<id>__x whose id is no server of the calling tenant
\* (no such row, or a row of another tenant) gets the not-found text, raises
\* nothing and sends no tools/call request.
C9_ForeignServerNotFound ==
    \A id \in UuidTokens :
        (/\ executed.call.name = DynamicName(id, <<"x">>)
         /\ ~\E s \in mcp_server : s.id = id /\ s.tenant_id = tenant_id)
        => /\ executed.result = ERR_SERVER_NOT_FOUND
           /\ ~executed.raised
           /\ executed.outbound = <<>>

\* The id belongs to an enabled server of the other tenant.
C9_Witness ==
    /\ executed.call.name = DynamicName("s1", <<"x">>)
    /\ \E s \in mcp_server :
          s.id = "s1" /\ s.tenant_id # tenant_id /\ s.enabled
    /\ executed.result = ERR_SERVER_NOT_FOUND
    /\ executed.outbound = <<>>

\* C10: a call with one of the fixed gallery names goes to the gallery
\* provider: any request it sends is addressed to the gallery endpoint, never
\* to a dynamic server, and with well-formed arguments exactly one is sent.
C10_GalleryNamesToGallery ==
    executed.call.name \in GALLERY_TOOL_NAMES =>
        /\ \A i \in 1..Len(executed.outbound) :
              /\ executed.outbound[i].url = GALLERY_MCP
              /\ executed.outbound[i].name = executed.call.name
        /\ executed.call.arguments.isdict => Len(executed.outbound) = 1

\* The tenant has an enabled dynamic server, and the call went to the gallery.
C10_Witness ==
    /\ executed.call.name = <<"show_gallery">>
    /\ \E s \in mcp_server : s.tenant_id = tenant_id /\ s.enabled
    /\ Len(executed.outbound) = 1
    /\ executed.outbound[1].url = GALLERY_MCP

\* ------------------------------------------------------------ catalog properties
\* A tools/list answer counts as a failed discovery when the request raised or
\* the list holds a malformed entry.
DiscoveryFailed(response) ==
    \/ response.failed
    \/ \E i \in 1..Len(response.tools) : ~response.tools[i].wellformed

BuiltinNames == GALLERY_TOOL_NAMES \cup RAG_TOOL_NAMES

\* C11: in the catalog the builder is assembling and returns, no two
\* descriptors have the same name, whatever the servers list.
C11_NamesUnique ==
    \A i, j \in 1..Len(tools) : i # j => tools[i].name # tools[j].name

\* C12: two catalog entries that come from different (server id, listed name)
\* pairs, the names holding no "__", are exposed under different names; no
\* entry of a dynamic server is exposed under a built-in name; and splitting
\* an exposed dynamic name at its first "__", as the router does, gives back
\* the server id and the listed name.
C12_RenamingInjective ==
    /\ Len(origin) = Len(tools)
    /\ \A i, j \in 1..Len(tools) :
          (/\ origin[i] # origin[j]
           /\ IndexOf(origin[i].name, "__", 1) = 0
           /\ IndexOf(origin[j].name, "__", 1) = 0)
          => tools[i].name # tools[j].name
    /\ \A i \in 1..Len(tools) :
          origin[i].server # "builtin" =>
              /\ tools[i].name \notin BuiltinNames
              /\ IsDynamicName(tools[i].name)
              /\ Without(SplitPrefix(tools[i].name), "mcp_") = <<origin[i].server>>
              /\ SplitInner(tools[i].name) = origin[i].name

\* Two servers list a tool of the same name, one of them under a built-in
\* name, next to the built-in tools.
C12_Witness ==
    /\ pc = "start"
    /\ \E i, j, k, b \in 1..Len(tools) :
          /\ origin[i] = [server |-> "s1", name |-> <<"x">>]
          /\ origin[j] = [server |-> "s2", name |-> <<"x">>]
          /\ origin[k] = [server |-> "s2", name |-> <<"list_galleries">>]
          /\ origin[b] = [server |-> "builtin", name |-> <<"list_galleries">>]

\* C13: a server whose discovery failed, at the request or at an entry of
\* the list after some valid ones, has no tool in the catalog, while the
\* built-in tools and what the other servers listed are in it.
C13_FailedServerContributesNothing ==
    \A k \in 1..Len(list_requests) :
        DiscoveryFailed(list_requests[k].response) =>
            \A i \in 1..Len(tools) : origin[i].server # list_requests[k].server

\* C17: no built-in descriptor of the catalog has tenant_id among its
\* parameter properties or in its required list.
C17_NoTenantIdInBuiltinSchemas ==
    \A i \in 1..Len(tools) :
        tools[i].name \in BuiltinNames =>
            /\ "tenant_id" \notin tools[i].parameters.properties
            /\ "tenant_id" \notin tools[i].parameters.required

\* All five built-in descriptors are in the returned catalog; search_documents
\* kept its query parameter, get_document its document_id.
C17_Witness ==
    /\ pc = "start"
    /\ \A n \in BuiltinNames : \E i \in 1..Len(tools) : tools[i].name = n
    /\ \E i \in 1..Len(tools) :
          /\ tools[i].name = <<"search_documents">>
          /\ tools[i].parameters = [properties |-> {"query"}, required |-> {"query"}]
    /\ \E i \in 1..Len(tools) :
          /\ tools[i].name = <<"get_document">>
          /\ tools[i].parameters.required = {"document_id"}

\* ------------------------------------------------------------ turn properties
CountRole(msgs, role) == Cardinality({i \in 1..Len(msgs) : msgs[i].role = role})

\* The text with every gallery path made absolute.
Rewritten(text) ==
    IF text = <<>> THEN <<>> ELSE <<"see", FRONTEND_BASE_URL, GALLERY_PATH>>

\* C14: whichever way the turn returns, a gallery path in the returned text
\* stands behind the public base address.
C14_EveryReturnRewritten ==
    pc = "returned" =>
        \A i \in 1..Len(result) :
            result[i] = GALLERY_PATH =>
                (i > 1 /\ result[i - 1] = FRONTEND_BASE_URL)

\* C15: a failed completion call ends the turn with that failure: the step
\* that fails leaves the turn raised, with one more completion call counted,
\* no tool executed and nothing returned, and a raised turn takes no further
\* step (no retry, no further completion call, no further tool call).
C15_CompletionFailurePropagates ==
    [][/\ pc # "raised"
       /\ exc' = "completion" =>
              /\ pc' = "raised"
              /\ n_completions' = n_completions + 1
              /\ n_tool_execs' = n_tool_execs
              /\ current_messages' \in {current_messages, LastN(messages, CONTEXT_MESSAGE_LIMIT)}
              /\ result' = <<>>
    ]_vars

\* The completion call of round two failed, after round one ran a tool.
C15_Witness ==
    /\ pc = "raised"
    /\ exc = "completion"
    /\ n_completions = 2
    /\ n_tool_execs >= 1

\* The latest request, when it is one of round two or later, holds for every
\* earlier round the assistant message with that round's tool calls followed
\* directly by one tool-result message per call, ids in order.
RequestHoldsEarlierRounds ==
    (last_request.with_tools /\ n_completions >= 2) =>
        LET sent == last_request.messages
            asst == {i \in 1..Len(sent) : sent[i].role = "assistant"}
        IN  /\ Cardinality(asst) = n_completions - 1
            /\ \A a \in asst :
                  LET calls == sent[a].tool_calls
                  IN  /\ calls # <<>>
                      /\ a + Len(calls) <= Len(sent)
                      /\ \A k \in 1..Len(calls) :
                            /\ sent[a + k].role = "tool"
                            /\ sent[a + k].tool_call_id = calls[k].id

C19_EndsAtFirstFinalResponse ==
    tools # <<>> =>
        /\ (pc \in {"request", "exec"} \/ AtRoundCap) =>
               CountRole(current_messages, "assistant") = round_index
        /\ pc = "returned" => (tool_calls = <<>> \/ round_index = MAX_TOOL_ROUNDS)
        /\ (pc = "returned" /\ tool_calls = <<>>) =>
               /\ CountRole(current_messages, "assistant") = round_index - 1
               /\ n_completions = round_index
               /\ result = Rewritten(content)
               /\ last_request.messages = current_messages
               /\ CountRole(current_messages, "tool") = n_tool_execs

\* Tools in round one, none in round two: two completion calls.
C19_Witness ==
    /\ pc = "returned"
    /\ tool_calls = <<>>
    /\ n_completions = 2
    /\ n_tool_execs = 1
    /\ result = <<"see", FRONTEND_BASE_URL, GALLERY_PATH>>

\* ------------------------------------------------------------ chat properties
\* Every stored user message is directly followed by an assistant message.
Paired(rows) ==
    \A i \in 1..Len(rows) :
        rows[i].role = "user" =>
            (i < Len(rows) /\ rows[i + 1].role = "assistant")

\* C16: once a chat request has been dealt with, every user message of the
\* stored dialog is followed by an assistant message, and a persisted turn
\* that got as far as the orchestration has stored its user message followed
\* by the reply, or by the fixed error text when the orchestration raised.
C16_TurnStoresPair ==
    chat_pc = "done" =>
        /\ Paired(message_table)
        /\ (reply.dialog /\ ~reply.is_test) =>
               LET n == Len(message_table)
               IN  /\ n >= 2
                   /\ message_table[n - 1] = MessageRow("user", reply.message_text)
                   /\ message_table[n] =
                          MessageRow("assistant",
                                     IF pc = "raised" THEN ERROR_REPLY ELSE result)

\* A persisted turn whose second completion call failed, after a tool ran:
\* the earlier exchange, the user message, the error text.
C16_Witness ==
    /\ chat_pc = "done"
    /\ pc = "raised"
    /\ n_tool_execs >= 1
    /\ ~reply.is_test
    /\ Len(message_table) = 4
    /\ message_table[3] = MessageRow("user", <<"a">>)
    /\ message_table[4] = MessageRow("assistant", ERROR_REPLY)
    /\ http_response.events = <<"error">>

\* C20: a POST /chat whose message is empty or blank is answered 400, and
\* the request is over with no dialog created, no message stored and no
\* completion call made.
C20_BlankRejected400 ==
    [][(chat_pc = "idle" /\ Strip(http_request.message) = <<>>) =>
          /\ http_response'.status = 400
          /\ chat_pc' = "done"
          /\ UNCHANGED <<dialog_table, message_table, test_storage,
                         n_completions, pc>>
    ]_vars

\* ------------------------------------------------------------ working list
\* What the turn has appended to the working list behind the history it
\* started from.
Appended ==
    SubSeq(current_messages, Len(LastN(messages, CONTEXT_MESSAGE_LIMIT)) + 1,
           Len(current_messages))

\* C21: what a turn appends to the working list is, round by round, one
\* assistant message carrying the round's tool calls followed directly by
\* the tool-result messages of those calls, in the order of the calls, one
\* per call once the round is over; the assistant message of the running
\* round carries exactly the calls the model returned.
C21_RoundAppendsInOrder ==
    tools # <<>> =>
        LET app == Appended
            asst == {i \in 1..Len(app) : app[i].role = "assistant"}
        IN  /\ \A i \in 1..Len(app) : app[i].role \in {"assistant", "tool"}
            /\ app # <<>> => app[1].role = "assistant"
            /\ \A a \in asst :
                  LET calls == app[a].tool_calls
                      later == {b \in asst : b > a}
                      next == IF later = {} THEN Len(app) + 1
                              ELSE CHOOSE b \in later : \A c \in later : b <= c
                      done == next - a - 1
                  IN  /\ calls # <<>>
                      /\ done <= Len(calls)
                      /\ \A k \in 1..done :
                            /\ app[a + k].role = "tool"
                            /\ app[a + k].tool_call_id = calls[k].id
                      /\ (later # {} \/ pc # "exec") => done = Len(calls)
                      /\ (later = {} /\ pc = "exec") =>
                            /\ calls = tool_calls
                            /\ app[a].content = content
                            /\ done = tc_index - 1

\* Two rounds are over, the first with two calls, the second with one.
C21_Witness ==
    /\ pc = "request"
    /\ round_index = 2
    /\ Len(Appended) = 5
    /\ Appended[1].role = "assistant"
    /\ Len(Appended[1].tool_calls) = 2
    /\ Appended[2].tool_call_id = "c1"
    /\ Appended[3].tool_call_id = "c2"
    /\ Appended[4].role = "assistant"
    /\ Appended[5].role = "tool"

\* C24: no step of the turn changes the caller's message list.
C24_CallerListUntouched ==
    [][messages' = messages]_vars

\* A turn that failed after it had appended to its working list: the
\* caller's list, longer than the window, still holds what it held.
C24_Witness ==
    /\ pc = "raised"
    /\ n_tool_execs >= 2
    /\ Len(messages) > CONTEXT_MESSAGE_LIMIT
    /\ Len(current_messages) > Len(messages)
    /\ \A i \in 1..Len(messages) : messages[i].role = "user"

\* C27: no tool call is executed in the last permitted round.
C27_NoToolInLastRound ==
    pc = "exec" => round_index < MAX_TOOL_ROUNDS

\* C30: rewriting the text a turn returned after rewriting it gives that
\* text again.
C30_RewritingIdempotent ==
    (pc = "returned" /\ tools # <<>> /\ tool_calls = <<>>) =>
        inject_base_url_to_image_paths(result) = result

\* ------------------------------------------------------------ enabled servers
EnabledOfTenant ==
    {s.id : s \in {r \in mcp_server : r.tenant_id = tenant_id /\ r.enabled}}

\* C23: while the catalog is built, tools/list goes only to servers of the
\* tenant whose enabled flag is true, and every dynamic tool of the catalog
\* comes from such a server: a disabled server gets no request and adds no
\* tool.
C23_OnlyEnabledDiscovered ==
    /\ \A k \in 1..Len(list_requests) :
          list_requests[k].server \in EnabledOfTenant
    /\ \A i \in 1..Len(origin) :
          origin[i].server # "builtin" => origin[i].server \in EnabledOfTenant

\* The tenant has a disabled and an enabled server; the loop has passed both,
\* the enabled one was asked and listed a tool.
C23_Witness ==
    /\ pc = "start"
    /\ \E d, e \in mcp_server :
          /\ d.tenant_id = tenant_id /\ ~d.enabled
          /\ e.tenant_id = tenant_id /\ e.enabled
    /\ Len(list_requests) = 1
    /\ \E i \in 1..Len(origin) : origin[i].server # "builtin"

\* ------------------------------------------------------------ one request per operation
\* C25: an operation of the protocol client puts one JSON-RPC request on the
\* wire; when the transport, the status or the body's error field make it
\* fail, the failure goes to the caller (raised, or the router's error text
\* for a dynamic server) after that one request, and no second one is sent.
C25_OneRequestNoRetry ==
    /\ Len(executed.outbound) <= 1
    /\ (executed.outbound # <<>> /\ executed.result # TOOL_TEXT)
          => /\ Len(executed.outbound) = 1
             /\ executed.raised \/ executed.result = ERR_TOOL_CALL

\* A call to a dynamic server that failed on the wire.
C25_Witness ==
    /\ Len(executed.outbound) = 1
    /\ executed.result = ERR_TOOL_CALL
    /\ IsDynamicName(executed.call.name)

\* C26: a call named mcp_<id>__x whose server is registered for the tenant
\* with its enabled flag false sends no tools/call request.
C26_DisabledNeverCalled ==
    \A s \in mcp_server :
        (/\ s.tenant_id = executed.caller
         /\ ~s.enabled
         /\ executed.call.name = DynamicName(s.id, <<"x">>))
            => executed.outbound = <<>>

\* ------------------------------------------------------------ gallery ownership
\* C28: show_gallery returns image paths only of a gallery that belongs to the
\* tenant_id of the arguments; for the group of another tenant the answer
\* names no image.
C28_ShowGalleryOwnTenantOnly ==
    (~gallery_call.pending /\ gallery_call.name = <<"show_gallery">>
        /\ gallery_reply.items # <<>>)
        => \E g \in gallery_group :
              /\ g.id = gallery_call.arguments.group_id
              /\ g.tenant_id = gallery_call.arguments.tenant_id

\* ------------------------------------------------------------ concurrent saves
\* The exchange of turn t stands in the test history: its user message and,
\* right after it, its own assistant reply.
ExchangeStored(t) ==
    \E i \in 1..(Len(test_storage) - 1) :
        /\ test_storage[i] = MessageRow("user", TurnMessage(t))
        /\ test_storage[i + 1] = MessageRow("assistant", test_turn[t].final_text)

\* C29: when two concurrent test turns of one (tenant, user) have both
\* completed, the test history, cut to its last TEST_HISTORY_LIMIT entries,
\* holds the user/assistant pair of each of them, every user message directly
\* followed by its own reply; neither pair is overwritten by the other turn.
C29_BothExchangesKept ==
    (\A t \in TurnIds : test_turn[t].pc = "done")
        => /\ \A t \in TurnIds : ExchangeStored(t)
           /\ Len(test_storage) <= TEST_HISTORY_LIMIT

\* Both turns read the history before either saved, both have saved, and the
\* history was full before.
C29_Witness ==
    /\ \A t \in TurnIds : test_turn[t].pc = "done"
    /\ test_turn["A"].previous_history = test_turn["B"].previous_history
    /\ Len(test_turn["A"].previous_history) = TEST_HISTORY_LIMIT
    /\ Len(test_storage) = TEST_HISTORY_LIMIT

\* ------------------------------------------------------------ no catalog cache
EnabledWhenListed ==
    {r.id : r \in {x \in registry_read : x.tenant_id = tenant_id /\ x.enabled}}

\* C22: every turn builds its catalog anew from the registry: whatever the
\* create, update, disable and delete operations run between and during the
\* turns, the dynamic tools of a turn's catalog are those of servers that the
\* turn's own registry query found registered and enabled, so never of a
\* server deleted or disabled before the turn.
C22_CatalogFromCurrentRegistry ==
    \A i \in 1..Len(origin) :
        origin[i].server # "builtin"
            => pc \in {"discover", "start"} /\ origin[i].server \in EnabledWhenListed

\* A later turn has returned its catalog with a dynamic tool in it, and a
\* server whose tools an earlier catalog held is by now deleted or disabled
\* and has no tool in this one.
C22_Witness ==
    /\ pc = "start"
    /\ \E i \in 1..Len(origin) : origin[i].server # "builtin"
    /\ \E id \in seen :
          /\ id \notin EnabledWhenListed
          /\ \A i \in 1..Len(origin) : origin[i].server # id

====
